---- MODULE Spec2Model ----
(***************************************************************************)
(* Model of functions/index.js: four HTTP Cloud Functions that send mail   *)
(* through SendGrid (sendNewProviderEmail, sendAccessCredentials,          *)
(* sendAppointmentNotification, sendCitaConfirmacion).                     *)
(*                                                                         *)
(* A JavaScript string is a sequence of one-character strings.  The value  *)
(* undefined is the one-element sequence Undefined, a value that is not a  *)
(* string over any alphabet used here.  Code between two awaits runs       *)
(* atomically (single-threaded event loop), so every action is the code    *)
(* from one suspension point to the next.                                  *)
(***************************************************************************)
EXTENDS Integers, Sequences, FiniteSets, TLC

\* ------------------------------------------------------------------ bounds
MaxAddrLen == 2      \* longest to / providerEmail string in a request body
MaxList == 2         \* longest adminEmails array in a request body
MaxDocs == 2         \* most documents a directory query returns
MaxNoteLen == 1      \* longest notas string

\* ------------------------------------------------------- values and strings
Reqs == {1, 2}
Alphabet == {"a", "A", " "}
NoteAlphabet == {"<", "x", "\n"}
Undefined == <<"undefined">>
Number == <<"number">>
Some == <<"a">>

StrsUpTo(alphabet, n) == UNION {[1..k -> alphabet] : k \in 0..n}
ListsUpTo(S, n) == UNION {[1..k -> S] : k \in 0..n}

\* JS truthiness of a string-or-undefined value: undefined and "" are falsy.
Truthy(v) == v # Undefined /\ v # <<>>

IsSpace(c) == c = " " \/ c = "\n"

RECURSIVE TrimStart(_)
TrimStart(s) ==
  IF s # <<>> /\ IsSpace(Head(s)) THEN TrimStart(Tail(s)) ELSE s

RECURSIVE TrimEnd(_)
TrimEnd(s) ==
  IF s # <<>> /\ IsSpace(s[Len(s)]) THEN TrimEnd(SubSeq(s, 1, Len(s) - 1)) ELSE s

\* String.prototype.trim
Trim(s) == TrimEnd(TrimStart(s))

LowerChar(c) == IF c = "A" THEN "a" ELSE c

\* String.prototype.toLowerCase
ToLowerCase(s) == [i \in 1..Len(s) |-> LowerChar(s[i])]

\* mutant: the address is trimmed but its case is kept
normalizeEmail_NoLower(email) ==
  IF ~Truthy(email) THEN <<>> ELSE Trim(email)

normalizeEmail(email) ==
  IF ~Truthy(email) THEN <<>> ELSE ToLowerCase(Trim(email))

\* array.map(normalizeEmail).filter(Boolean)
NormalizeAll(list) ==
  SelectSeq([i \in 1..Len(list) |-> normalizeEmail(list[i])], Truthy)

RECURSIVE Remove(_, _)
Remove(s, x) ==
  IF s = <<>> THEN <<>>
  ELSE IF Head(s) = x THEN Remove(Tail(s), x)
  ELSE <<Head(s)>> \o Remove(Tail(s), x)

\* mutant: the duplicates are kept
Unique_Keep(list) == list

\* [...new Set(list)]: first occurrences, in insertion order
RECURSIVE Unique(_)
Unique(list) ==
  IF list = <<>> THEN <<>>
  ELSE <<Head(list)>> \o Unique(Remove(Tail(list), Head(list)))

Range(s) == {s[i] : i \in 1..Len(s)}

\* value || ""
OrEmpty(v) == IF Truthy(v) THEN v ELSE <<>>

\* value || "-"
OrDash(v) == IF Truthy(v) THEN v ELSE <<"-">>

\* s.replace(/c/g, rep)
RECURSIVE ReplaceAll(_, _, _)
ReplaceAll(s, c, rep) ==
  IF s = <<>> THEN <<>>
  ELSE (IF Head(s) = c THEN rep ELSE <<Head(s)>>) \o ReplaceAll(Tail(s), c, rep)

Lt == <<"&", "l", "t", ";">>
Br == <<"<", "b", "r", ">">>
Usuario == <<"U", "s", "u", "a", "r", "i", "o">>

\* ------------------------------------------------------------- directory
\* where("id", "in", [1, 2])
RoleIds == {1, 2}

\* address values of array items and directory documents: undefined, empty,
\* blank, two spellings of one address, a padded one, a second address
AddrSamples ==
  {Undefined, <<>>, <<" ">>, <<"a">>, <<"A">>, <<"a", " ">>, <<"A", "a">>}

\* adminsSnapshot.docs as the values of doc.data()?.correo, in snapshot order:
\* whatever documents the directory returns for the query
Snapshots == ListsUpTo(AddrSamples, MaxDocs)

\* ------------------------------------------------------------ thrown errors
NoBody == "-"
SendErrors ==
  { [message |-> "Bad Request", string |-> "Error: Bad Request",
     body |-> "{errors:[{message,field,help}]}"],
    [message |-> "connect ETIMEDOUT", string |-> "Error: connect ETIMEDOUT",
     body |-> NoBody],
    [message |-> "", string |-> "Error", body |-> NoBody] }
QueryErrors ==
  { [message |-> "PERMISSION_DENIED", string |-> "Error: PERMISSION_DENIED",
     body |-> NoBody] }
ReplaceTypeError ==
  [message |-> "notas.replace is not a function",
   string |-> "TypeError: notas.replace is not a function", body |-> NoBody]

\* mutant: the response carries the provider's response body
ErrorText_Body(error) == error.body

\* error.message || String(error)
ErrorText(error) == IF error.message # "" THEN error.message ELSE error.string

\* ---------------------------------------------------------------- responses
NoField == "-"

\* res.status(204).send("")
EmptyResponse(code) ==
  [status |-> code, json |-> FALSE, success |-> FALSE,
   message |-> NoField, error |-> NoField]

\* sendError(res, httpCode, message)
sendError(httpCode, message) ==
  [status |-> httpCode, json |-> TRUE, success |-> FALSE,
   message |-> message, error |-> NoField]

\* res.status(200).json({success: true, message})
SuccessResponse(message) ==
  [status |-> 200, json |-> TRUE, success |-> TRUE,
   message |-> message, error |-> NoField]

\* mutant: the outer catch answers as if the mail had been sent
CatchResponse_AsSuccess(message, error) ==
  [status |-> 200, json |-> TRUE, success |-> TRUE,
   message |-> message, error |-> NoField]

\* res.status(500).json({success: false, message, error: error.message || String(error)})
CatchResponse(message, error) ==
  [status |-> 500, json |-> TRUE, success |-> FALSE,
   message |-> message, error |-> ErrorText(error)]

NotConfigured == "SendGrid no está configurado en el servidor."

\* mutant: the 405 is sent without the JSON body
MethodNotAllowed_NoBody == EmptyResponse(405)

\* sendError(res, 405, "Method Not Allowed")
MethodNotAllowed == sendError(405, "Method Not Allowed")

\* ----------------------------------------------------------------- requests
NP == "sendNewProviderEmail"
AC == "sendAccessCredentials"
AN == "sendAppointmentNotification"
CC == "sendCitaConfirmacion"
Endpoints == {NP, AC, AN, CC}
Methods == {"OPTIONS", "POST", "GET"}

Addrs == StrsUpTo(Alphabet, MaxAddrLen) \cup {Undefined}
Notes == StrsUpTo(NoteAlphabet, MaxNoteLen) \cup {Undefined, Number}
Texts == {Undefined, <<" ">>, Some}
Opts == {Undefined, Some}
\* rol: absent, blank, plain, padded
Rols == Texts \cup {<<" ", "a">>}

SubFields ==
  {"linea", "razon", "direccionFiscal", "direccionPatios", "frontera",
   "telefonoContacto"}

NoProviderData == [present |-> FALSE, fields |-> {}]
FullProviderData == [present |-> TRUE, fields |-> SubFields]
\* providerData: absent, complete, or lacking exactly one sub-field
ProviderDatas ==
  {NoProviderData} \cup
  {[present |-> TRUE, fields |-> F] :
     F \in {SubFields} \cup {SubFields \ {f} : f \in SubFields}}

NoList == [isArray |-> FALSE, items |-> <<>>]
AdminLists ==
  {NoList} \cup {[isArray |-> TRUE, items |-> l] : l \in ListsUpTo(AddrSamples, MaxList)}

NoCita == [present |-> FALSE, fecha |-> Undefined, hora |-> Undefined,
           notas |-> Undefined]
Citas ==
  {NoCita} \cup
  {[present |-> TRUE, fecha |-> f, hora |-> h, notas |-> n] :
     f \in Opts, h \in Opts, n \in Notes}

NoDatosCita == [present |-> FALSE, notas |-> Undefined]
DatosCitas == {NoDatosCita} \cup {[present |-> TRUE, notas |-> n] : n \in Notes}

\* req.body || {} : every field undefined
NullBody ==
  [providerData |-> NoProviderData, adminEmails |-> NoList,
   zipBase64 |-> Undefined, zipName |-> Undefined,
   providerEmail |-> Undefined, cita |-> NoCita,
   to |-> Undefined, usuario |-> Undefined, contrasena |-> Undefined,
   rol |-> Undefined, folio |-> Undefined, datosCita |-> NoDatosCita]

\* new-provider bodies: every providerData with a complete ZIP, and the
\* complete providerData with every ZIP, each with every adminEmails
Bodies(e) ==
  CASE e = NP ->
         {[NullBody EXCEPT !.providerData = pd, !.adminEmails = ae,
                           !.zipBase64 = Some, !.zipName = Some] :
            pd \in ProviderDatas, ae \in AdminLists}
         \cup
         {[NullBody EXCEPT !.providerData = FullProviderData, !.adminEmails = ae,
                           !.zipBase64 = zb, !.zipName = zn] :
            ae \in AdminLists, zb \in Opts, zn \in Opts}
    [] e = AC ->
         {[NullBody EXCEPT !.to = t, !.usuario = u, !.contrasena = c, !.rol = ro] :
            t \in Addrs, u \in Texts, c \in Texts, ro \in Rols}
    [] e = AN ->
         {[NullBody EXCEPT !.providerEmail = pe, !.cita = ci] :
            pe \in Addrs, ci \in Citas}
    [] e = CC ->
         {[NullBody EXCEPT !.to = t, !.folio = fo, !.datosCita = dc] :
            t \in Addrs, fo \in Opts, dc \in DatosCitas}

\* a complete body of each kind
FullBody(e) ==
  CASE e = NP -> [NullBody EXCEPT
                    !.providerData = FullProviderData,
                    !.zipBase64 = Some, !.zipName = Some]
    [] e = AC -> [NullBody EXCEPT !.to = Some, !.usuario = Some,
                                  !.contrasena = Some, !.rol = Some]
    [] e = AN -> [NullBody EXCEPT
                    !.providerEmail = Some,
                    !.cita = [present |-> TRUE, fecha |-> Some, hora |-> Some,
                              notas |-> Undefined]]
    [] e = CC -> [NullBody EXCEPT
                    !.to = Some, !.folio = Some,
                    !.datosCita = [present |-> TRUE, notas |-> Undefined]]

Keys == {"", "SG.key"}

\* The body is read only by a POST that finds the key; the other requests
\* carry a complete or an empty body.
Requests(key) ==
  UNION {
    {[endpoint |-> e, method |-> m, body |-> b] :
       m \in Methods, b \in {NullBody, FullBody(e)}}
    \cup
    {[endpoint |-> e, method |-> "POST", body |-> b] :
       b \in IF key = "" THEN {} ELSE Bodies(e)}
    : e \in Endpoints}

NoRequest == [endpoint |-> "-", method |-> "-", body |-> NullBody]

\* ------------------------------------------------------------------- state
VARIABLES
  sendgridKey,   \* process.env.SENDGRID_API_KEY ("" when unset)
  apiKey,        \* the key held by the shared sgMail client
  req,           \* req[r]: the request (endpoint, method, body)
  pc,            \* pc[r]: idle, received, awaitQuery, awaitSend, done
  queryIds,      \* queryIds[r]: the role ids of the directory query issued
  snapshot,      \* snapshot[r]: outcome of the directory query and the
                 \*   adminEmails mapped and filtered from it
  pdfRead,       \* pdfRead[r]: outcome of fs.readFileSync of the PDF
  msg,           \* msg[r]: the message passed to mailClient.send
  sendResult,    \* sendResult[r]: outcome of mailClient.send
  calls,         \* calls[r]: the collaborator calls made, in order
  responses      \* responses[r]: the responses written to res, in order

vars == <<sendgridKey, apiKey, req, pc, queryIds, snapshot, pdfRead, msg,
          sendResult, calls, responses>>

NoSnapshot == [status |-> "none", emails |-> <<>>]
NoMsg == [sent |-> FALSE, toIsArray |-> FALSE, to |-> <<>>, attachments |-> <<>>,
          htmlNotas |-> <<>>, textNotas |-> <<>>, rol |-> <<>>]
NoError == [message |-> "-", string |-> "-", body |-> NoBody]
NoSend == [state |-> "none", error |-> NoError]

InitWith(active) ==
  /\ sendgridKey \in Keys
  /\ apiKey = ""
  /\ \E arrived \in [active -> Requests(sendgridKey)] :
       req = [r \in Reqs |-> IF r \in active THEN arrived[r] ELSE NoRequest]
  /\ pc = [r \in Reqs |-> IF r \in active THEN "received" ELSE "idle"]
  /\ queryIds = [r \in Reqs |-> {}]
  /\ snapshot = [r \in Reqs |-> NoSnapshot]
  /\ pdfRead = [r \in Reqs |-> "none"]
  /\ msg = [r \in Reqs |-> NoMsg]
  /\ sendResult = [r \in Reqs |-> NoSend]
  /\ calls = [r \in Reqs |-> <<>>]
  /\ responses = [r \in Reqs |-> <<>>]

\* one request in flight
Init == InitWith({1})

\* bodies of the requests that run side by side: a complete one of each kind,
\* and one whose addresses need normalizing
ConcurrentBodies(e) ==
  {FullBody(e)} \cup
  CASE e = NP -> {[FullBody(NP) EXCEPT
                     !.adminEmails = [isArray |-> TRUE,
                                      items |-> <<<<"A">>, <<"a", " ">>>>]]}
    [] e = AC -> {[FullBody(AC) EXCEPT !.to = <<" ", "A">>, !.rol = Undefined]}
    [] e = AN -> {[FullBody(AN) EXCEPT !.providerEmail = <<" ">>]}
    [] e = CC -> {[FullBody(CC) EXCEPT !.to = <<"A">>]}

ConcurrentRequests ==
  UNION {{[endpoint |-> e, method |-> "POST", body |-> b] : b \in ConcurrentBodies(e)}
         : e \in Endpoints}

\* two requests in flight on one instance, to the same or to different
\* endpoints
ConcurrentInit ==
  /\ sendgridKey \in Keys
  /\ apiKey = ""
  /\ req \in [Reqs -> ConcurrentRequests]
  /\ pc = [r \in Reqs |-> "received"]
  /\ queryIds = [r \in Reqs |-> {}]
  /\ snapshot = [r \in Reqs |-> NoSnapshot]
  /\ pdfRead = [r \in Reqs |-> "none"]
  /\ msg = [r \in Reqs |-> NoMsg]
  /\ sendResult = [r \in Reqs |-> NoSend]
  /\ calls = [r \in Reqs |-> <<>>]
  /\ responses = [r \in Reqs |-> <<>>]

\* ------------------------------------------------------------ shared steps
\* mutant: the client is returned without looking at the key
initSendGridOrFail_Always == TRUE

\* process.env.SENDGRID_API_KEY is set: initSendGridOrFail returns the client
initSendGridOrFail == sendgridKey # ""

\* mutant: the handler returns without writing to res
Respond_Silent(r, response) ==
  /\ responses' = responses
  /\ pc' = [pc EXCEPT ![r] = "done"]

\* return res.status(...).json(...) / .send(""): one response, handler ends
Respond(r, response) ==
  /\ responses' = [responses EXCEPT ![r] = Append(@, response)]
  /\ pc' = [pc EXCEPT ![r] = "done"]

\* mutant: send is called without await and the handler answers at once
CallSend_NotAwaited(r, message, callsNow) ==
  /\ msg' = [msg EXCEPT ![r] = message]
  /\ sendResult' = [sendResult EXCEPT ![r] = [state |-> "pending", error |-> NoError]]
  /\ calls' = [calls EXCEPT ![r] = Append(callsNow, "send")]
  /\ Respond(r, SuccessResponse(NoField))

\* mutant: the message is kept in a variable all requests share
CallSend_Shared(r, message, callsNow) ==
  /\ msg' = [q \in Reqs |-> message]
  /\ sendResult' = [sendResult EXCEPT ![r] = [state |-> "pending", error |-> NoError]]
  /\ calls' = [calls EXCEPT ![r] = Append(callsNow, "send")]
  /\ pc' = [pc EXCEPT ![r] = "awaitSend"]
  /\ UNCHANGED responses

\* mailClient.send(message) is called and awaited
CallSend(r, message, callsNow) ==
  /\ msg' = [msg EXCEPT ![r] = message]
  /\ sendResult' = [sendResult EXCEPT ![r] = [state |-> "pending", error |-> NoError]]
  /\ calls' = [calls EXCEPT ![r] = Append(callsNow, "send")]
  /\ pc' = [pc EXCEPT ![r] = "awaitSend"]
  /\ UNCHANGED responses

\* the awaited send resolves: the handler answers 200
SendResolved(r, e, message) ==
  /\ pc[r] = "awaitSend"
  /\ req[r].endpoint = e
  /\ sendResult' = [sendResult EXCEPT ![r] = [state |-> "accepted", error |-> NoError]]
  /\ Respond(r, SuccessResponse(message))
  /\ UNCHANGED <<sendgridKey, apiKey, req, queryIds, snapshot, pdfRead, msg, calls>>

\* mutant: a rejected send is tried again
SendRejected_Retry(r, e, message) ==
  /\ pc[r] = "awaitSend"
  /\ req[r].endpoint = e
  /\ Len(calls[r]) < 5
  /\ calls' = [calls EXCEPT ![r] = Append(@, "send")]
  /\ UNCHANGED <<sendgridKey, apiKey, req, pc, queryIds, snapshot, pdfRead, msg,
                 sendResult, responses>>

\* the awaited send rejects: inner catch rethrows, outer catch answers 500
SendRejected(r, e, message) ==
  /\ pc[r] = "awaitSend"
  /\ req[r].endpoint = e
  /\ \E sgError \in SendErrors :
       /\ sendResult' = [sendResult EXCEPT ![r] = [state |-> "rejected", error |-> sgError]]
       /\ Respond(r, CatchResponse(message, sgError))
  /\ UNCHANGED <<sendgridKey, apiKey, req, queryIds, snapshot, pdfRead, msg, calls>>

\* ---------------------------------------------------- 1) sendNewProviderEmail
NPFailed == "Ocurrió un error al enviar el correo."

\* if (!providerData)
MissingProviderData(body) == ~body.providerData.present

\* mutant: blank items are not filtered out
ExplicitAdmins_NoFilter(body) ==
  IF body.adminEmails.isArray
  THEN [i \in 1..Len(body.adminEmails.items) |->
          normalizeEmail(body.adminEmails.items[i])]
  ELSE <<>>

\* Array.isArray(adminEmailsFromClient)
\*   ? adminEmailsFromClient.map(normalizeEmail).filter(Boolean) : []
ExplicitAdmins(body) ==
  IF body.adminEmails.isArray THEN NormalizeAll(body.adminEmails.items) ELSE <<>>

\* mutant: the ZIP is attached when either of the two fields is present
ZipAttachments_Either(body) ==
  IF Truthy(body.zipBase64) \/ Truthy(body.zipName)
  THEN <<[type |-> "application/zip", filename |-> body.zipName,
          content |-> body.zipBase64]>>
  ELSE <<>>

\* if (zipBase64 && zipName) attachments.push({...})
ZipAttachments(body) ==
  IF Truthy(body.zipBase64) /\ Truthy(body.zipName)
  THEN <<[type |-> "application/zip", filename |-> body.zipName,
          content |-> body.zipBase64]>>
  ELSE <<>>

\* sendError(res, 500, "Los administradores no tienen correo configurado.")
NoAdminEmails == sendError(500, "Los administradores no tienen correo configurado.")

\* dedup, empty check, attachment, message, send
sendNewProviderEmail_Resolve(r, emails, callsNow) ==
  LET body == req[r].body
      adminEmails == Unique(emails)
      attachments == ZipAttachments(body)
  IN IF adminEmails = <<>>
     THEN /\ Respond(r, NoAdminEmails)
          /\ calls' = [calls EXCEPT ![r] = callsNow]
          /\ UNCHANGED <<msg, sendResult>>
     ELSE CallSend(r, [sent |-> TRUE, toIsArray |-> TRUE, to |-> adminEmails,
                       attachments |-> attachments, htmlNotas |-> <<>>,
                       textNotas |-> <<>>, rol |-> <<>>], callsNow)

sendNewProviderEmail_Start(r) ==
  /\ pc[r] = "received"
  /\ req[r].endpoint = NP
  /\ LET body == req[r].body
         fromClient == ExplicitAdmins(body)
     IN IF req[r].method = "OPTIONS"
        THEN /\ Respond(r, EmptyResponse(204))
             /\ UNCHANGED <<apiKey, queryIds, msg, sendResult, calls>>
        ELSE IF req[r].method # "POST"
        THEN /\ Respond(r, MethodNotAllowed)
             /\ UNCHANGED <<apiKey, queryIds, msg, sendResult, calls>>
        ELSE IF ~initSendGridOrFail
        THEN /\ Respond(r, sendError(500, NotConfigured))
             /\ calls' = [calls EXCEPT ![r] = Append(@, "init")]
             /\ UNCHANGED <<apiKey, queryIds, msg, sendResult>>
        ELSE /\ apiKey' = sendgridKey
             /\ IF MissingProviderData(body)
                THEN /\ Respond(r, sendError(400, "Faltan los datos del proveedor."))
                     /\ calls' = [calls EXCEPT ![r] = Append(@, "init")]
                     /\ UNCHANGED <<queryIds, msg, sendResult>>
                ELSE IF fromClient = <<>>
                THEN /\ queryIds' = [queryIds EXCEPT ![r] = RoleIds]
                     /\ calls' = [calls EXCEPT ![r] = @ \o <<"init", "query">>]
                     /\ pc' = [pc EXCEPT ![r] = "awaitQuery"]
                     /\ UNCHANGED <<msg, sendResult, responses>>
                ELSE /\ sendNewProviderEmail_Resolve(r, fromClient, Append(calls[r], "init"))
                     /\ UNCHANGED queryIds
  /\ UNCHANGED <<sendgridKey, req, snapshot, pdfRead>>

sendNewProviderEmail_QueryReturn(r) ==
  /\ pc[r] = "awaitQuery"
  /\ req[r].endpoint = NP
  /\ \E docs \in Snapshots :
       LET adminEmails == NormalizeAll(docs)
       IN /\ snapshot' = [snapshot EXCEPT ![r] = [status |-> "ok", emails |-> adminEmails]]
          /\ sendNewProviderEmail_Resolve(r, adminEmails, calls[r])
  /\ UNCHANGED <<sendgridKey, apiKey, req, queryIds, pdfRead>>

\* mutant: the query's error is caught and the list stays empty
sendNewProviderEmail_QueryThrow_Swallowed(r) ==
  /\ pc[r] = "awaitQuery"
  /\ req[r].endpoint = NP
  /\ snapshot' = [snapshot EXCEPT ![r] = [status |-> "threw", emails |-> <<>>]]
  /\ sendNewProviderEmail_Resolve(r, <<>>, calls[r])
  /\ UNCHANGED <<sendgridKey, apiKey, req, queryIds, pdfRead>>

\* the query rejects: nothing catches it before the outer catch
sendNewProviderEmail_QueryThrow(r) ==
  /\ pc[r] = "awaitQuery"
  /\ req[r].endpoint = NP
  /\ \E error \in QueryErrors :
       /\ snapshot' = [snapshot EXCEPT ![r] = [status |-> "threw", emails |-> <<>>]]
       /\ Respond(r, CatchResponse(NPFailed, error))
  /\ UNCHANGED <<sendgridKey, apiKey, req, queryIds, pdfRead, msg, sendResult, calls>>

sendNewProviderEmail_SendResolved(r) ==
  SendResolved(r, NP, "Correo enviado correctamente a los administradores.")

sendNewProviderEmail_SendRejected(r) == SendRejected(r, NP, NPFailed)

\* --------------------------------------------------- 2) sendAccessCredentials
\* if (!toNorm)
MissingTo(body) == normalizeEmail(body.to) = <<>>

\* if (!usuarioFinal || !passFinal)
MissingUserOrPass(body) ==
  Trim(OrEmpty(body.usuario)) = <<>> \/ Trim(OrEmpty(body.contrasena)) = <<>>

\* mutant: a blank rol is rendered as it is, without the fallback
RolFinal_NoFallback(body) == Trim(OrEmpty(body.rol))

\* (rol || "").toString().trim() || "Usuario"
RolFinal(body) ==
  IF Trim(OrEmpty(body.rol)) # <<>> THEN Trim(OrEmpty(body.rol)) ELSE Usuario

sendAccessCredentials_Start(r) ==
  /\ pc[r] = "received"
  /\ req[r].endpoint = AC
  /\ LET body == req[r].body
         toNorm == normalizeEmail(body.to)
         rolFinal == RolFinal(body)
     IN IF req[r].method = "OPTIONS"
        THEN /\ Respond(r, EmptyResponse(204))
             /\ UNCHANGED <<apiKey, msg, sendResult, calls>>
        ELSE IF req[r].method # "POST"
        THEN /\ Respond(r, MethodNotAllowed)
             /\ UNCHANGED <<apiKey, msg, sendResult, calls>>
        ELSE IF ~initSendGridOrFail
        THEN /\ Respond(r, sendError(500, NotConfigured))
             /\ calls' = [calls EXCEPT ![r] = Append(@, "init")]
             /\ UNCHANGED <<apiKey, msg, sendResult>>
        ELSE /\ apiKey' = sendgridKey
             /\ IF MissingTo(body)
                THEN /\ Respond(r, sendError(400, "Falta el correo del usuario."))
                     /\ calls' = [calls EXCEPT ![r] = Append(@, "init")]
                     /\ UNCHANGED <<msg, sendResult>>
                ELSE IF MissingUserOrPass(body)
                THEN /\ Respond(r, sendError(400, "Faltan usuario o contraseña."))
                     /\ calls' = [calls EXCEPT ![r] = Append(@, "init")]
                     /\ UNCHANGED <<msg, sendResult>>
                ELSE CallSend(r, [sent |-> TRUE, toIsArray |-> FALSE, to |-> <<toNorm>>,
                                  attachments |-> <<>>, htmlNotas |-> <<>>,
                                  textNotas |-> <<>>, rol |-> rolFinal],
                              Append(calls[r], "init"))
  /\ UNCHANGED <<sendgridKey, req, queryIds, snapshot, pdfRead>>

ACFailed == "Ocurrió un error al enviar el correo."

sendAccessCredentials_SendResolved(r) ==
  SendResolved(r, AC, "Correo de credenciales enviado correctamente.")

sendAccessCredentials_SendRejected(r) == SendRejected(r, AC, ACFailed)

\* --------------------------------------------- 3) sendAppointmentNotification
ANFailed == "Ocurrió un error al enviar la notificación de cita."

\* mutant: the check of cita.hora is forgotten
MissingCitaData_NoHora(body) ==
  \/ ~Truthy(body.providerEmail)
  \/ ~body.cita.present
  \/ ~Truthy(body.cita.fecha)

\* if (!providerEmail || !cita || !cita.fecha || !cita.hora)
MissingCitaData(body) ==
  \/ ~Truthy(body.providerEmail)
  \/ ~body.cita.present
  \/ ~Truthy(body.cita.fecha)
  \/ ~Truthy(body.cita.hora)

\* [...new Set([provEmailNorm, ...adminEmails].filter(Boolean))]
AllRecipients(provEmailNorm, adminEmails) ==
  Unique(SelectSeq(<<provEmailNorm>> \o adminEmails, Truthy))

\* (notas || "").replace(/</g, "&lt;") || "-"
PreRegHtmlNotas(notas) == OrDash(ReplaceAll(OrEmpty(notas), "<", Lt))

sendAppointmentNotification_Start(r) ==
  /\ pc[r] = "received"
  /\ req[r].endpoint = AN
  /\ LET body == req[r].body
     IN IF req[r].method = "OPTIONS"
        THEN /\ Respond(r, EmptyResponse(204))
             /\ UNCHANGED <<apiKey, queryIds, calls>>
        ELSE IF req[r].method # "POST"
        THEN /\ Respond(r, MethodNotAllowed)
             /\ UNCHANGED <<apiKey, queryIds, calls>>
        ELSE IF ~initSendGridOrFail
        THEN /\ Respond(r, sendError(500, NotConfigured))
             /\ calls' = [calls EXCEPT ![r] = Append(@, "init")]
             /\ UNCHANGED <<apiKey, queryIds>>
        ELSE /\ apiKey' = sendgridKey
             /\ IF MissingCitaData(body)
                THEN /\ Respond(r, sendError(400,
                          "Faltan datos para enviar la confirmación de cita."))
                     /\ calls' = [calls EXCEPT ![r] = Append(@, "init")]
                     /\ UNCHANGED queryIds
                ELSE /\ queryIds' = [queryIds EXCEPT ![r] = RoleIds]
                     /\ calls' = [calls EXCEPT ![r] = @ \o <<"init", "query">>]
                     /\ pc' = [pc EXCEPT ![r] = "awaitQuery"]
                     /\ UNCHANGED responses
  /\ UNCHANGED <<sendgridKey, req, snapshot, pdfRead, msg, sendResult>>

\* mutant: the empty recipient list is reported as a client error
NoRecipients_AsClientError ==
  sendError(400, "No se encontraron correos configurados para notificar la cita.")

\* sendError(res, 500, "No se encontraron correos configurados ...")
NoRecipients ==
  sendError(500, "No se encontraron correos configurados para notificar la cita.")

\* union, dedup, empty check, HTML body, message, send
sendAppointmentNotification_Resolve(r, adminEmails) ==
  LET body == req[r].body
      provEmailNorm == normalizeEmail(body.providerEmail)
      allRecipients == AllRecipients(provEmailNorm, adminEmails)
      notas == body.cita.notas
  IN IF allRecipients = <<>>
     THEN /\ Respond(r, NoRecipients)
          /\ UNCHANGED <<msg, sendResult, calls>>
     ELSE IF notas = Number
     THEN /\ Respond(r, CatchResponse(ANFailed, ReplaceTypeError))
          /\ UNCHANGED <<msg, sendResult, calls>>
     ELSE CallSend(r, [sent |-> TRUE, toIsArray |-> TRUE, to |-> allRecipients,
                       attachments |-> <<>>,
                       htmlNotas |-> PreRegHtmlNotas(notas),
                       textNotas |-> <<>>, rol |-> <<>>], calls[r])

sendAppointmentNotification_QueryReturn(r) ==
  /\ pc[r] = "awaitQuery"
  /\ req[r].endpoint = AN
  /\ \E docs \in Snapshots :
       LET adminEmails == NormalizeAll(docs)
       IN /\ snapshot' = [snapshot EXCEPT ![r] = [status |-> "ok", emails |-> adminEmails]]
          /\ sendAppointmentNotification_Resolve(r, adminEmails)
  /\ UNCHANGED <<sendgridKey, apiKey, req, queryIds, pdfRead>>

\* mutant: the query's error reaches the outer catch
sendAppointmentNotification_QueryThrow_Fails(r) ==
  /\ pc[r] = "awaitQuery"
  /\ req[r].endpoint = AN
  /\ \E error \in QueryErrors :
       /\ snapshot' = [snapshot EXCEPT ![r] = [status |-> "threw", emails |-> <<>>]]
       /\ Respond(r, CatchResponse(ANFailed, error))
  /\ UNCHANGED <<sendgridKey, apiKey, req, queryIds, pdfRead, msg, sendResult, calls>>

\* the query rejects: caught and logged, adminEmails stays []
sendAppointmentNotification_QueryThrow(r) ==
  /\ pc[r] = "awaitQuery"
  /\ req[r].endpoint = AN
  /\ \E error \in QueryErrors :
       /\ snapshot' = [snapshot EXCEPT ![r] = [status |-> "threw", emails |-> <<>>]]
       /\ sendAppointmentNotification_Resolve(r, <<>>)
  /\ UNCHANGED <<sendgridKey, apiKey, req, queryIds, pdfRead>>

sendAppointmentNotification_SendResolved(r) ==
  SendResolved(r, AN, "Notificación de cita enviada correctamente.")

sendAppointmentNotification_SendRejected(r) == SendRejected(r, AN, ANFailed)

\* ---------------------------------------------------- 4) sendCitaConfirmacion
CCFailed == "Ocurrió un error al enviar la confirmación de cita."

PdfAttachment ==
  [type |-> "application/pdf",
   filename |-> <<"Indicaciones de ingreso a transportistas.pdf">>,
   content |-> <<"pdfBase64">>]

\* if (!to || !folio || !datosCita)
MissingConfirmParams(body) ==
  \/ ~Truthy(body.to)
  \/ ~Truthy(body.folio)
  \/ ~body.datosCita.present

\* (notas && notas.replace(/\n/g, "<br>")) || "-"
ConfirmHtmlNotas(notas) ==
  IF Truthy(notas) THEN OrDash(ReplaceAll(notas, "\n", Br)) ELSE <<"-">>

\* mutant: the attachment is pushed whether or not the read succeeded
PdfAttachments_Unchecked(readOk) == <<PdfAttachment>>

\* attachments after the try/catch around fs.readFileSync
PdfAttachments(readOk) == IF readOk THEN <<PdfAttachment>> ELSE <<>>

sendCitaConfirmacion_Start(r) ==
  /\ pc[r] = "received"
  /\ req[r].endpoint = CC
  /\ LET body == req[r].body
         toNorm == normalizeEmail(body.to)
         notas == body.datosCita.notas
     IN IF req[r].method = "OPTIONS"
        THEN /\ Respond(r, EmptyResponse(204))
             /\ UNCHANGED <<apiKey, pdfRead, msg, sendResult, calls>>
        ELSE IF req[r].method # "POST"
        THEN /\ Respond(r, MethodNotAllowed)
             /\ UNCHANGED <<apiKey, pdfRead, msg, sendResult, calls>>
        ELSE IF ~initSendGridOrFail
        THEN /\ Respond(r, sendError(500, NotConfigured))
             /\ calls' = [calls EXCEPT ![r] = Append(@, "init")]
             /\ UNCHANGED <<apiKey, pdfRead, msg, sendResult>>
        ELSE /\ apiKey' = sendgridKey
             /\ IF MissingConfirmParams(body)
                THEN /\ Respond(r, sendError(400,
                          "Faltan parámetros obligatorios (to, folio, datosCita)."))
                     /\ calls' = [calls EXCEPT ![r] = Append(@, "init")]
                     /\ UNCHANGED <<pdfRead, msg, sendResult>>
                ELSE IF notas = Number
                THEN /\ Respond(r, CatchResponse(CCFailed, ReplaceTypeError))
                     /\ calls' = [calls EXCEPT ![r] = Append(@, "init")]
                     /\ UNCHANGED <<pdfRead, msg, sendResult>>
                ELSE \E readOk \in BOOLEAN :
                       /\ pdfRead' = [pdfRead EXCEPT ![r] =
                                        IF readOk THEN "ok" ELSE "failed"]
                       /\ CallSend(r,
                            [sent |-> TRUE, toIsArray |-> FALSE, to |-> <<toNorm>>,
                             attachments |-> PdfAttachments(readOk),
                             htmlNotas |-> ConfirmHtmlNotas(notas),
                             textNotas |-> OrDash(notas), rol |-> <<>>],
                            calls[r] \o <<"init", "read">>)
  /\ UNCHANGED <<sendgridKey, req, queryIds, snapshot>>

sendCitaConfirmacion_SendResolved(r) ==
  SendResolved(r, CC, "Correo de confirmación de cita enviado correctamente.")

sendCitaConfirmacion_SendRejected(r) == SendRejected(r, CC, CCFailed)

\* ------------------------------------------------------------ specification
Next ==
  \E r \in Reqs :
    \/ sendNewProviderEmail_Start(r)
    \/ sendNewProviderEmail_QueryReturn(r)
    \/ sendNewProviderEmail_QueryThrow(r)
    \/ sendNewProviderEmail_SendResolved(r)
    \/ sendNewProviderEmail_SendRejected(r)
    \/ sendAccessCredentials_Start(r)
    \/ sendAccessCredentials_SendResolved(r)
    \/ sendAccessCredentials_SendRejected(r)
    \/ sendAppointmentNotification_Start(r)
    \/ sendAppointmentNotification_QueryReturn(r)
    \/ sendAppointmentNotification_QueryThrow(r)
    \/ sendAppointmentNotification_SendResolved(r)
    \/ sendAppointmentNotification_SendRejected(r)
    \/ sendCitaConfirmacion_Start(r)
    \/ sendCitaConfirmacion_SendResolved(r)
    \/ sendCitaConfirmacion_SendRejected(r)

Spec == Init /\ [][Next]_vars

\* every awaited promise settles
FairSpec == Spec /\ WF_vars(Next)

\* two handlers interleaved at their awaits
ConcurrentSpec == ConcurrentInit /\ [][Next]_vars

\* ================================================================== claims
Count(s, x) == Cardinality({i \in 1..Len(s) : s[i] = x})
Active == {r \in Reqs : pc[r] # "idle"}
Posted(r) == req[r].method = "POST"
Configured == sendgridKey # ""
Answered(r) == pc[r] = "done" /\ Len(responses[r]) = 1
Answer(r) == responses[r][1]
NoDirectoryOrSend(r) == Count(calls[r], "query") = 0 /\ Count(calls[r], "send") = 0

\* a required field of the interface table is left out of the body
OmitsCheckedField(r) ==
  LET body == req[r].body
  IN CASE req[r].endpoint = NP -> ~body.providerData.present
       [] req[r].endpoint = AC ->
            body.to = Undefined \/ body.usuario = Undefined \/ body.contrasena = Undefined
       [] req[r].endpoint = AN ->
            \/ body.providerEmail = Undefined
            \/ ~body.cita.present
            \/ body.cita.fecha = Undefined
            \/ body.cita.hora = Undefined
       [] req[r].endpoint = CC ->
            body.to = Undefined \/ body.folio = Undefined \/ ~body.datosCita.present
       [] OTHER -> FALSE

OmitsSubField(r) ==
  /\ req[r].endpoint = NP
  /\ req[r].body.providerData.present
  /\ req[r].body.providerData.fields # SubFields

Rejected400(r) ==
  /\ pc[r] \in {"received", "done"}
  /\ pc[r] = "done" => Answered(r) /\ Answer(r).status = 400
  /\ NoDirectoryOrSend(r)

\* C1 (as stated): with the credential configured, a POST that omits any
\* required field of its kind, the six providerData sub-fields included, is
\* answered 400 and makes no directory query and no send call.
C1_AsStated ==
  \A r \in Active :
    Posted(r) /\ Configured /\ (OmitsCheckedField(r) \/ OmitsSubField(r))
      => Rejected400(r)

\* C1 (amended): with the credential configured, a POST that omits a required
\* field its handler checks (new provider: providerData; credentials: to,
\* usuario, contrasena; pre-registration: providerEmail, cita.fecha, cita.hora;
\* confirmation: to, folio, datosCita) is answered 400 and makes no directory
\* query and no send call; a missing providerData sub-field is not rejected.
C1_MissingFieldIs400 ==
  \A r \in Active :
    Posted(r) /\ Configured /\ OmitsCheckedField(r) => Rejected400(r)

\* a pre-registration without cita.hora has been answered 400
C1_Witness ==
  \E r \in Active :
    /\ req[r].endpoint = AN /\ Posted(r) /\ Configured
    /\ Truthy(req[r].body.providerEmail)
    /\ req[r].body.cita.present
    /\ Truthy(req[r].body.cita.fecha)
    /\ req[r].body.cita.hora = Undefined
    /\ Answered(r) /\ Answer(r).status = 400

\* C2: send is never called with an empty recipient list or with a blank
\* recipient address.
C2_NoBlankRecipient ==
  \A r \in Active :
    msg[r].sent =>
      /\ msg[r].to # <<>>
      /\ \A i \in 1..Len(msg[r].to) : Trim(msg[r].to[i]) # <<>>

\* C3: the answer is 200 with success:true exactly when a send call was made
\* and accepted; a rejected send is answered success:false.
C3_SuccessIffAccepted ==
  \A r \in Active :
    pc[r] = "done" =>
      /\ Answered(r)
      /\ (Answer(r).status = 200 /\ Answer(r).success)
           <=> (Count(calls[r], "send") = 1 /\ sendResult[r].state = "accepted")
      /\ sendResult[r].state = "rejected" => ~Answer(r).success /\ Answer(r).status # 200
      /\ Answer(r).success => Answer(r).status = 200

\* a rejected send has been answered 500, success:false
C3_Witness ==
  \E r \in Active :
    /\ Answered(r)
    /\ sendResult[r].state = "rejected"
    /\ Answer(r).status = 500
    /\ ~Answer(r).success

StatusCodes == {200, 204, 400, 405, 500}

AtMostOneResponse ==
  \A r \in Active :
    /\ Len(responses[r]) <= 1
    /\ pc[r] = "done" <=> Len(responses[r]) = 1
    /\ \A i \in 1..Len(responses[r]) : responses[r][i].status \in StatusCodes

\* C4: every request is eventually answered, exactly once, with a status among
\* 200, 204, 400, 405, 500, whatever the collaborators return or throw.
C4_ExactlyOneResponse ==
  /\ []AtMostOneResponse
  /\ <>(\A r \in Active : Answered(r))

\* a request whose directory query threw has been answered once
C4_Witness ==
  \E r \in Active :
    /\ snapshot[r].status = "threw"
    /\ req[r].endpoint = NP
    /\ Answered(r)
    /\ Answer(r).status = 500

\* C5: without the credential every POST is answered 500 with the fixed
\* message, and no directory query, document read or send call is made.
C5_NotConfiguredIs500 ==
  \A r \in Active :
    Posted(r) /\ ~Configured =>
      /\ pc[r] \in {"received", "done"}
      /\ pc[r] = "done" =>
           /\ Answered(r)
           /\ Answer(r).status = 500
           /\ ~Answer(r).success
           /\ Answer(r).message = "SendGrid no está configurado en el servidor."
      /\ NoDirectoryOrSend(r)
      /\ Count(calls[r], "read") = 0
      /\ ~msg[r].sent

\* a complete confirmation request has been answered 500 for lack of the key
C5_Witness ==
  \E r \in Active :
    /\ Posted(r) /\ ~Configured
    /\ req[r].endpoint = CC
    /\ req[r].body = FullBody(CC)
    /\ Answered(r) /\ Answer(r).status = 500

\* an address in normal form: not blank, no capital, no surrounding space
WellFormed(a) ==
  /\ a # <<>>
  /\ \A i \in 1..Len(a) : a[i] # "A"
  /\ ~IsSpace(a[1])
  /\ ~IsSpace(a[Len(a)])

NoRepeat(list) == \A i, j \in 1..Len(list) : list[i] = list[j] => i = j

\* the distinct non-blank normalized addresses of a list of raw values
NormalForms(list) == {normalizeEmail(list[i]) : i \in 1..Len(list)} \ {<<>>}

UsableExplicit(r) ==
  /\ req[r].body.adminEmails.isArray
  /\ NormalForms(req[r].body.adminEmails.items) # {}

\* the addresses a handler has to write to
SourceAddresses(r) ==
  CASE req[r].endpoint = NP ->
         IF UsableExplicit(r)
         THEN NormalForms(req[r].body.adminEmails.items)
         ELSE Range(snapshot[r].emails)
    [] req[r].endpoint = AN ->
         NormalForms(<<req[r].body.providerEmail>>) \cup Range(snapshot[r].emails)
    [] OTHER -> {}

\* C6: in the new-provider and pre-registration flows the recipient list
\* passed to send holds each distinct normalized address of its sources exactly
\* once, and every address in it is trimmed, lower-cased and not blank.
C6_RecipientsDistinctNormalized ==
  \A r \in Active :
    msg[r].sent /\ req[r].endpoint \in {NP, AN} =>
      /\ NoRepeat(msg[r].to)
      /\ \A i \in 1..Len(msg[r].to) : WellFormed(msg[r].to[i])
      /\ Range(msg[r].to) = SourceAddresses(r)
      /\ \A i \in 1..Len(snapshot[r].emails) : WellFormed(snapshot[r].emails[i])

\* a padded, capitalised provider address and two directory entries for the
\* same address were merged into one recipient
C6_Witness ==
  \E r \in Active :
    /\ req[r].endpoint = AN
    /\ req[r].body.providerEmail = <<" ", "A">>
    /\ snapshot[r].emails = <<<<"a">>, <<"a">>>>
    /\ msg[r].sent
    /\ msg[r].to = <<<<"a">>>>

\* C7: new-provider flow: a usable explicit list is the recipient list
\* (deduplicated) and the directory is not queried; otherwise the directory is
\* queried exactly once, for role ids {1, 2}, and the message goes to the
\* deduplicated addresses it returned.
C7_ExplicitListOrDirectory ==
  \A r \in Active :
    /\ req[r].endpoint = NP
    /\ Posted(r) /\ Configured
    /\ req[r].body.providerData.present
    /\ pc[r] # "received"
    => IF UsableExplicit(r)
       THEN /\ Count(calls[r], "query") = 0
            /\ queryIds[r] = {}
            /\ snapshot[r].status = "none"
            /\ msg[r].sent
            /\ NoRepeat(msg[r].to)
            /\ Range(msg[r].to) = NormalForms(req[r].body.adminEmails.items)
       ELSE /\ Count(calls[r], "query") = 1
            /\ queryIds[r] = {1, 2}
            /\ msg[r].sent =>
                 /\ snapshot[r].status = "ok"
                 /\ NoRepeat(msg[r].to)
                 /\ Range(msg[r].to) = Range(snapshot[r].emails)

\* an explicit list with two spellings of one address was used without a query
C7_Witness ==
  \E r \in Active :
    /\ req[r].endpoint = NP
    /\ req[r].body.adminEmails.isArray
    /\ req[r].body.adminEmails.items = <<<<"A">>, <<"a", " ">>>>
    /\ msg[r].sent
    /\ msg[r].to = <<<<"a">>>>
    /\ calls[r] = <<"init", "send">>

\* C8: pre-registration flow: every validated request queries the directory
\* exactly once, and a sent message's recipients include the normalized
\* provider address and every administrator address the directory returned.
C8_ProviderAndAdmins ==
  \A r \in Active :
    /\ req[r].endpoint = AN
    /\ Posted(r) /\ Configured
    /\ Truthy(req[r].body.providerEmail)
    /\ req[r].body.cita.present
    /\ Truthy(req[r].body.cita.fecha)
    /\ Truthy(req[r].body.cita.hora)
    /\ pc[r] # "received"
    => /\ Count(calls[r], "query") = 1
       /\ msg[r].sent =>
            /\ \E i \in 1..Len(msg[r].to) :
                 /\ msg[r].to[i] = normalizeEmail(req[r].body.providerEmail)
                 /\ WellFormed(msg[r].to[i])
            /\ Range(snapshot[r].emails) \subseteq Range(msg[r].to)

\* C9: confirmation flow: a failed read of the PDF does not fail the request:
\* send is called once, without attachment, and an accepted send is answered
\* 200; the only failure answered is the send's. A successful read gives
\* exactly one application/pdf attachment.
C9_AttachmentDegrades ==
  \A r \in Active :
    /\ pdfRead[r] = "failed" =>
         /\ req[r].endpoint = CC
         /\ Count(calls[r], "send") = 1
         /\ msg[r].sent
         /\ msg[r].attachments = <<>>
         /\ pc[r] = "done" =>
              /\ Answered(r)
              /\ sendResult[r].state = "accepted" =>
                   /\ Answer(r).status = 200
                   /\ Answer(r).success
                   /\ Answer(r).error = NoField
              /\ sendResult[r].state = "rejected" =>
                   Answer(r).error \in {sendResult[r].error.message,
                                        sendResult[r].error.string}
              /\ sendResult[r].state \in {"accepted", "rejected"}
    /\ pdfRead[r] = "ok" =>
         /\ msg[r].sent
         /\ Len(msg[r].attachments) = 1
         /\ msg[r].attachments[1].type = "application/pdf"
    /\ req[r].endpoint = CC /\ msg[r].sent => pdfRead[r] \in {"ok", "failed"}

\* the PDF could not be read and the confirmation was still answered 200
C9_Witness ==
  \E r \in Active :
    /\ req[r].endpoint = CC
    /\ pdfRead[r] = "failed"
    /\ msg[r].attachments = <<>>
    /\ sendResult[r].state = "accepted"
    /\ Answered(r)
    /\ Answer(r).status = 200

FlowMessage(e) ==
  CASE e = NP -> "Ocurrió un error al enviar el correo."
    [] e = AC -> "Ocurrió un error al enviar el correo."
    [] e = AN -> "Ocurrió un error al enviar la notificación de cita."
    [] e = CC -> "Ocurrió un error al enviar la confirmación de cita."
    [] OTHER -> "-"

RejectedAnswered(r) == pc[r] = "done" /\ sendResult[r].state = "rejected"

\* C10 (as stated): a rejected send is answered 500, success:false, with the
\* flow's message and an error field carrying the structured detail of the
\* provider's failure response.
C10_AsStated ==
  \A r \in Active :
    RejectedAnswered(r) =>
      /\ Answer(r).status = 500
      /\ ~Answer(r).success
      /\ Answer(r).message = FlowMessage(req[r].endpoint)
      /\ sendResult[r].error.body # NoBody =>
           Answer(r).error = sendResult[r].error.body

\* C10 (amended): a rejected send is answered 500, success:false, with the
\* flow's message and an error field holding the thrown error's message text
\* (its string form when the message is empty); the structured detail of the
\* provider's response is not part of the answer.
C10_ErrorFieldIsMessage ==
  \A r \in Active :
    RejectedAnswered(r) =>
      /\ Answered(r)
      /\ Answer(r).status = 500
      /\ ~Answer(r).success
      /\ Answer(r).message = FlowMessage(req[r].endpoint)
      /\ Answer(r).error =
           IF sendResult[r].error.message # ""
           THEN sendResult[r].error.message
           ELSE sendResult[r].error.string
      /\ Answer(r).error # sendResult[r].error.body

\* a rejection that came with a response body was answered with the message only
C10_Witness ==
  \E r \in Active :
    /\ RejectedAnswered(r)
    /\ sendResult[r].error.body # NoBody
    /\ Answer(r).status = 500
    /\ Answer(r).error = "Bad Request"

\* the directory was asked and gave no usable administrator address
DirectoryEmpty(r) == snapshot[r].status = "ok" /\ snapshot[r].emails = <<>>

\* the final recipient set of a request that got as far as resolving it is empty
NoRecipientLeft(r) ==
  CASE req[r].endpoint = NP -> ~UsableExplicit(r) /\ DirectoryEmpty(r)
    [] req[r].endpoint = AN ->
         /\ snapshot[r].status \in {"ok", "threw"}
         /\ snapshot[r].emails = <<>>
         /\ Trim(OrEmpty(req[r].body.providerEmail)) = <<>>
    [] OTHER -> FALSE

ConfigurationMessages ==
  {"Los administradores no tienen correo configurado.",
   "No se encontraron correos configurados para notificar la cita."}

\* C11: when the final deduplicated recipient set is empty (new provider: no
\* usable explicit address and none from the directory; pre-registration: no
\* provider address and none from the directory) the request is answered 500,
\* success:false, with a configuration message, and nothing is sent.
C11_NoRecipientsIs500 ==
  \A r \in Active :
    NoRecipientLeft(r) =>
      /\ Answered(r)
      /\ Answer(r).status = 500
      /\ ~Answer(r).success
      /\ Answer(r).message \in ConfigurationMessages
      /\ Answer(r).error = NoField
      /\ ~msg[r].sent
      /\ Count(calls[r], "send") = 0

\* a pre-registration with a blank provider address and an empty directory
\* has been answered 500
C11_Witness ==
  \E r \in Active :
    /\ req[r].endpoint = AN
    /\ req[r].body.providerEmail = <<" ">>
    /\ DirectoryEmpty(r)
    /\ Answered(r)
    /\ Answer(r).status = 500

OneSendAtMost ==
  \A r \in Active :
    /\ Count(calls[r], "send") <= 1
    /\ msg[r].sent <=> Count(calls[r], "send") = 1
    /\ sendResult[r].state # "none" <=> Count(calls[r], "send") = 1
    /\ sendResult[r].state = "rejected" =>
         /\ Answered(r)
         /\ Answer(r).status = 500
         /\ ~Answer(r).success

\* the step in which a send is rejected writes the response, and nothing is
\* called after a rejection
RejectionAnswersAtOnce ==
  \A r \in Reqs :
    /\ sendResult[r].state = "pending" /\ sendResult'[r].state = "rejected" =>
         /\ Len(responses'[r]) = Len(responses[r]) + 1
         /\ calls'[r] = calls[r]
         /\ pc'[r] = "done"
    /\ sendResult[r].state = "pending" =>
         calls'[r] = calls[r] /\ sendResult'[r].state # "none"
    /\ sendResult[r].state \in {"accepted", "rejected"} =>
         calls'[r] = calls[r] /\ sendResult'[r] = sendResult[r]

\* C12: a request makes at most one send call; a rejected send is not tried
\* again and its failure is the request's response, written in the same step.
C12_NoRetry == []OneSendAtMost /\ [][RejectionAnswersAtOnce]_vars

\* a send that timed out was answered 500 after a single send call
C12_Witness ==
  \E r \in Active :
    /\ sendResult[r].state = "rejected"
    /\ sendResult[r].error.message = "connect ETIMEDOUT"
    /\ Count(calls[r], "send") = 1
    /\ Answered(r)
    /\ Answer(r).status = 500
    /\ Answer(r).error = "connect ETIMEDOUT"

\* C13: on each endpoint OPTIONS is answered 204 and any other method than
\* POST is answered 405 {success:false, message:"Method Not Allowed"}; nothing
\* else happens: no credential check, no directory query, no read, no send.
C13_MethodGate ==
  \A r \in Active :
    ~Posted(r) =>
      /\ pc[r] \in {"received", "done"}
      /\ calls[r] = <<>>
      /\ apiKey = ""
      /\ queryIds[r] = {}
      /\ snapshot[r].status = "none"
      /\ pdfRead[r] = "none"
      /\ ~msg[r].sent
      /\ sendResult[r].state = "none"
      /\ pc[r] = "done" =>
           /\ Answered(r)
           /\ IF req[r].method = "OPTIONS"
              THEN Answer(r).status = 204 /\ ~Answer(r).json
              ELSE /\ Answer(r).status = 405
                   /\ Answer(r).json
                   /\ ~Answer(r).success
                   /\ Answer(r).message = "Method Not Allowed"
                   /\ Answer(r).error = NoField

\* a GET with a complete confirmation body and the key set was answered 405
C13_Witness ==
  \E r \in Active :
    /\ req[r].method = "GET"
    /\ req[r].endpoint = CC
    /\ req[r].body = FullBody(CC)
    /\ Configured
    /\ Answered(r)
    /\ Answer(r).status = 405
    /\ calls[r] = <<>>

\* the notes of the request, "" when absent
NotesOf(r) ==
  CASE req[r].endpoint = AN -> OrEmpty(req[r].body.cita.notas)
    [] req[r].endpoint = CC -> OrEmpty(req[r].body.datosCita.notas)
    [] OTHER -> <<>>

\* C14: in the pre-registration and confirmation flows every "<" of the notes
\* is rendered as "&lt;" in the HTML body, so the only "<" left in the rendered
\* notes are those of the line breaks the handler itself inserts; the
\* confirmation plain-text body carries the notes as they came.
C14_NotesEscaped ==
  \A r \in Active :
    msg[r].sent /\ req[r].endpoint \in {AN, CC} =>
      /\ Count(msg[r].htmlNotas, "&") = Count(NotesOf(r), "<")
      /\ req[r].endpoint = AN => Count(msg[r].htmlNotas, "<") = 0
      /\ req[r].endpoint = CC =>
           /\ Count(msg[r].htmlNotas, "<") = Count(NotesOf(r), "\n")
           /\ msg[r].textNotas = OrDash(NotesOf(r))

HasZip(r) ==
  /\ req[r].body.zipBase64 \notin {Undefined, <<>>}
  /\ req[r].body.zipName \notin {Undefined, <<>>}

\* a new-provider request that got past validation and recipient resolution
ResolvedNewProvider(r) ==
  /\ req[r].endpoint = NP
  /\ Posted(r) /\ Configured
  /\ req[r].body.providerData.present
  /\ UsableExplicit(r) \/ (snapshot[r].status = "ok" /\ snapshot[r].emails # <<>>)

\* C15: a new-provider message carries the caller's ZIP as its single
\* application/zip attachment exactly when zipBase64 and zipName are both
\* present; without one of them it carries none and is sent all the same. No
\* message of any flow carries more than one attachment.
C15_ZipWhenBothPresent ==
  \A r \in Active :
    /\ Len(msg[r].attachments) <= 1
    /\ ResolvedNewProvider(r) /\ pc[r] # "received" =>
         /\ msg[r].sent
         /\ Count(calls[r], "send") = 1
         /\ IF HasZip(r)
            THEN /\ Len(msg[r].attachments) = 1
                 /\ msg[r].attachments[1].type = "application/zip"
                 /\ msg[r].attachments[1].content = req[r].body.zipBase64
                 /\ msg[r].attachments[1].filename = req[r].body.zipName
            ELSE msg[r].attachments = <<>>
         /\ pc[r] = "done" /\ sendResult[r].state = "accepted" =>
              Answer(r).status = 200
    /\ req[r].endpoint \in {AC, AN} => msg[r].attachments = <<>>

\* a request with the ZIP content but no file name was sent without attachment
\* and answered 200
C15_Witness ==
  \E r \in Active :
    /\ ResolvedNewProvider(r)
    /\ req[r].body.zipBase64 = Some
    /\ req[r].body.zipName = Undefined
    /\ msg[r].sent
    /\ msg[r].attachments = <<>>
    /\ Answered(r)
    /\ Answer(r).status = 200

\* a field that is present and not made of whitespace only
NonBlank(v) == v # Undefined /\ \E i \in 1..Len(v) : ~IsSpace(v[i])

\* v without its leading and trailing whitespace
Stripped(v) ==
  LET inner == {i \in 1..Len(v) : ~IsSpace(v[i])}
      first == CHOOSE i \in inner : \A j \in inner : i <= j
      last == CHOOSE i \in inner : \A j \in inner : j <= i
  IN IF inner = {} THEN <<>> ELSE SubSeq(v, first, last)

\* C16: access credentials: with to, usuario and contrasena non-blank the
\* message goes to the single address normalize(to), the role rendered is the
\* trimmed rol, or "Usuario" when rol is absent or blank, and an accepted send
\* is answered 200 {success:true, "Correo de credenciales enviado
\* correctamente."}; a blank rol never fails the request.
C16_CredentialsDispatch ==
  \A r \in Active :
    /\ req[r].endpoint = AC
    /\ Posted(r) /\ Configured
    /\ NonBlank(req[r].body.to)
    /\ NonBlank(req[r].body.usuario)
    /\ NonBlank(req[r].body.contrasena)
    /\ pc[r] # "received"
    => /\ msg[r].sent
       /\ ~msg[r].toIsArray
       /\ Len(msg[r].to) = 1
       /\ WellFormed(msg[r].to[1])
       /\ msg[r].to[1] = [i \in 1..Len(Stripped(req[r].body.to)) |->
                            IF Stripped(req[r].body.to)[i] = "A" THEN "a"
                            ELSE Stripped(req[r].body.to)[i]]
       /\ msg[r].rol = IF NonBlank(req[r].body.rol)
                       THEN Stripped(req[r].body.rol)
                       ELSE <<"U", "s", "u", "a", "r", "i", "o">>
       /\ pc[r] = "done" /\ sendResult[r].state = "accepted" =>
            /\ Answered(r)
            /\ Answer(r).status = 200
            /\ Answer(r).success
            /\ Answer(r).message = "Correo de credenciales enviado correctamente."
       /\ pc[r] = "done" => sendResult[r].state \in {"accepted", "rejected"}

\* a padded, capitalised address with a blank rol was sent with the fallback
\* role and answered 200
C16_Witness ==
  \E r \in Active :
    /\ req[r].endpoint = AC
    /\ req[r].body.to = <<" ", "A">>
    /\ req[r].body.rol = <<" ">>
    /\ msg[r].sent
    /\ msg[r].to = <<<<"a">>>>
    /\ msg[r].rol = Usuario
    /\ Answered(r)
    /\ Answer(r).status = 200

\* the address values a request carries
AddressInputs(r) ==
  {req[r].body.to, req[r].body.providerEmail}
    \cup Range(req[r].body.adminEmails.items)

\* v without surrounding whitespace and with its capitals folded
Folded(v) ==
  [i \in 1..Len(Stripped(v)) |->
     IF Stripped(v)[i] = "A" THEN "a" ELSE Stripped(v)[i]]

\* at least two values, all spellings of one address: they differ only in
\* letter case and surrounding whitespace
SpellingsOfOne(list) ==
  /\ Len(list) >= 2
  /\ \A i \in 1..Len(list) : NonBlank(list[i])
  /\ \A i, j \in 1..Len(list) : Folded(list[i]) = Folded(list[j])

\* C17: normalizeEmail is idempotent on every address value a request carries
\* (absent and empty values give ""), every address a handler has normalized
\* is a fixed point of it, and an explicit list of spellings of one address is
\* normalized and deduplicated to exactly one recipient.
C17_NormalizeIdempotent ==
  \A r \in Active :
    /\ \A x \in AddressInputs(r) :
         /\ normalizeEmail(normalizeEmail(x)) = normalizeEmail(x)
         /\ x \in {Undefined, <<>>} => normalizeEmail(x) = <<>>
         /\ NonBlank(x) => normalizeEmail(x) = Folded(x)
    /\ \A i \in 1..Len(msg[r].to) : normalizeEmail(msg[r].to[i]) = msg[r].to[i]
    /\ \A i \in 1..Len(snapshot[r].emails) :
         normalizeEmail(snapshot[r].emails[i]) = snapshot[r].emails[i]
    /\ /\ req[r].endpoint = NP
       /\ msg[r].sent
       /\ req[r].body.adminEmails.isArray
       /\ SpellingsOfOne(req[r].body.adminEmails.items)
       => msg[r].to = <<Folded(req[r].body.adminEmails.items[1])>>

\* a padded and a capitalised spelling of one address became one recipient
C17_Witness ==
  \E r \in Active :
    /\ req[r].endpoint = NP
    /\ req[r].body.adminEmails.items = <<<<"a", " ">>, <<"A">>>>
    /\ msg[r].sent
    /\ Len(msg[r].to) = 1
    /\ normalizeEmail(msg[r].to[1]) = msg[r].to[1]

QueryErrorTexts ==
  {e.message : e \in QueryErrors} \cup {e.string : e \in QueryErrors}

\* the notes are text or absent, so rendering them cannot throw
NotesAreText(r) == req[r].body.cita.notas # Number

\* C18: pre-registration: a directory query that throws does not fail the
\* request: the administrator list is empty, a blank provider address gives
\* the no-recipients answer, and a non-blank one gets the message alone, which
\* is answered 200 when the provider accepts it; the query's error is never
\* the response.
C18_QueryFailureIgnored ==
  \A r \in Active :
    req[r].endpoint = AN /\ snapshot[r].status = "threw" =>
      /\ snapshot[r].emails = <<>>
      /\ Count(calls[r], "query") = 1
      /\ \A i \in 1..Len(responses[r]) : responses[r][i].error \notin QueryErrorTexts
      /\ IF NonBlank(req[r].body.providerEmail)
         THEN NotesAreText(r) =>
                /\ msg[r].sent
                /\ msg[r].to = <<Folded(req[r].body.providerEmail)>>
                /\ Count(calls[r], "send") = 1
                /\ pc[r] = "done" =>
                     /\ sendResult[r].state \in {"accepted", "rejected"}
                     /\ sendResult[r].state = "accepted" =>
                          Answer(r).status = 200 /\ Answer(r).success
         ELSE /\ ~msg[r].sent
              /\ Answered(r)
              /\ Answer(r).status = 500
              /\ Answer(r).message =
                   "No se encontraron correos configurados para notificar la cita."

\* the query threw and the provider alone got the message, answered 200
C18_Witness ==
  \E r \in Active :
    /\ req[r].endpoint = AN
    /\ snapshot[r].status = "threw"
    /\ req[r].body.providerEmail = <<"A", " ">>
    /\ msg[r].to = <<<<"a">>>>
    /\ sendResult[r].state = "accepted"
    /\ Answered(r)
    /\ Answer(r).status = 200

\* C19: new provider: when no usable explicit address was given and the
\* directory query throws, no send call is made and the request is answered
\* 500, success:false, with the generic send-failure message and the thrown
\* error's message in the error field.
C19_QueryFailureIs500 ==
  \A r \in Active :
    req[r].endpoint = NP /\ snapshot[r].status = "threw" =>
      /\ ~UsableExplicit(r)
      /\ Count(calls[r], "query") = 1
      /\ Count(calls[r], "send") = 0
      /\ ~msg[r].sent
      /\ sendResult[r].state = "none"
      /\ Answered(r)
      /\ Answer(r).status = 500
      /\ ~Answer(r).success
      /\ Answer(r).message = "Ocurrió un error al enviar el correo."
      /\ Answer(r).error \in {e.message : e \in QueryErrors}
      /\ Answer(r).error # ""

\* a blank explicit list, a throwing query, and the 500 that carries its error
C19_Witness ==
  \E r \in Active :
    /\ req[r].endpoint = NP
    /\ req[r].body.adminEmails.isArray
    /\ req[r].body.adminEmails.items = <<<<" ">>>>
    /\ snapshot[r].status = "threw"
    /\ calls[r] = <<"init", "query">>
    /\ Answered(r)
    /\ Answer(r).error = "PERMISSION_DENIED"

\* everything the model keeps for one request
Own(r) ==
  <<req[r], queryIds[r], snapshot[r], pdfRead[r], msg[r], sendResult[r],
    calls[r], responses[r]>>

\* what the collaborators answered to one request
CollaboratorAnswers(r) == <<snapshot[r], pdfRead[r], sendResult[r]>>

\* two requests with the same content, at the same point, that got the same
\* answers from the collaborators, have the same recipients, message and
\* response, whichever of them ran first
SameInSameOut ==
  \A r1, r2 \in Active :
    /\ req[r1] = req[r2]
    /\ pc[r1] = pc[r2]
    /\ CollaboratorAnswers(r1) = CollaboratorAnswers(r2)
    => /\ msg[r1] = msg[r2]
       /\ responses[r1] = responses[r2]
       /\ calls[r1] = calls[r2]
       /\ queryIds[r1] = queryIds[r2]

\* the recipients and the response of a request follow from its own body and
\* its own collaborators' answers, as when it runs alone
OwnOutcome(r) ==
  /\ msg[r].sent /\ req[r].endpoint \in {NP, AN} =>
       NoRepeat(msg[r].to) /\ Range(msg[r].to) = SourceAddresses(r)
  /\ msg[r].sent /\ req[r].endpoint \in {AC, CC} =>
       msg[r].to = <<Folded(req[r].body.to)>>
  /\ Len(responses[r]) <= 1
  /\ pc[r] = "done" =>
       /\ Len(responses[r]) = 1
       /\ sendResult[r].state = "accepted" <=> Answer(r).status = 200
       /\ sendResult[r].state = "rejected" =>
            /\ Answer(r).status = 500
            /\ Answer(r).message = FlowMessage(req[r].endpoint)
            /\ Answer(r).error \in {sendResult[r].error.message,
                                     sendResult[r].error.string}
       /\ sendResult[r].state = "none" => Answer(r).status \in {400, 500}

\* a step belongs to one request and leaves everything of the other alone; the
\* shared mail client is only ever given the process's own key
StepOfOneRequest ==
  /\ \A q \in Reqs : pc'[q] = pc[q] => Own(q)' = Own(q)
  /\ Cardinality({q \in Reqs : pc'[q] # pc[q]}) <= 1
  /\ sendgridKey' = sendgridKey
  /\ apiKey' \in {apiKey, sendgridKey}

\* C20: two requests handled concurrently, interleaved at the directory query
\* and at the send call in any order, each get the recipients, message and
\* response their own body and collaborator answers give; no step of one
\* request changes anything of the other.
C20_RequestsIndependent ==
  /\ [](SameInSameOut /\ \A r \in Active : OwnOutcome(r))
  /\ [][StepOfOneRequest]_vars

\* two pre-registrations were both awaiting their send; one was accepted and
\* the other rejected
C20_Witness ==
  /\ req[1].endpoint = AN /\ req[2].endpoint = AN
  /\ Count(calls[1], "query") = 1 /\ Count(calls[2], "query") = 1
  /\ Answered(1) /\ Answered(2)
  /\ sendResult[1].state = "accepted" /\ Answer(1).status = 200
  /\ sendResult[2].state = "rejected" /\ Answer(2).status = 500

\* place of a collaborator call in the handler's order
CallRank(c) ==
  CASE c = "init" -> 1
    [] c = "query" -> 2
    [] c = "read" -> 3
    [] c = "send" -> 4
    [] OTHER -> 0

\* place of a request's position in the handler
PcRank(p) ==
  CASE p = "received" -> 1
    [] p = "awaitQuery" -> 2
    [] p = "awaitSend" -> 3
    [] p = "done" -> 4
    [] OTHER -> 0

\* the calls made so far are in the handler's order, each at most once, and
\* the answers follow the calls they depend on
CallsInOrder ==
  \A r \in Active :
    /\ \A i, j \in 1..Len(calls[r]) :
         i < j => CallRank(calls[r][i]) < CallRank(calls[r][j])
    /\ \A i \in 1..Len(calls[r]) : CallRank(calls[r][i]) > 0
    /\ calls[r] # <<>> => calls[r][1] = "init"
    /\ Count(calls[r], "query") = 1 => req[r].endpoint \in {NP, AN}
    /\ Count(calls[r], "read") = 1 <=>
         req[r].endpoint = CC /\ Count(calls[r], "send") = 1
    /\ pc[r] = "awaitQuery" <=>
         Count(calls[r], "query") = 1 /\ snapshot[r].status = "none"
    /\ Count(calls[r], "query") = 1 /\ Count(calls[r], "send") = 1 =>
         snapshot[r].status \in {"ok", "threw"}
    /\ pc[r] = "awaitSend" <=> sendResult[r].state = "pending"
    /\ sendResult[r].state = "pending" => responses[r] = <<>>
    /\ pc[r] = "done" =>
         /\ Answered(r)
         /\ Answer(r).status = 400 => calls[r] = <<"init">>
         /\ Answer(r).status = 200 =>
              /\ sendResult[r].state = "accepted"
              /\ calls[r][Len(calls[r])] = "send"
         /\ Answer(r).status = 500 /\ Count(calls[r], "send") = 1 =>
              sendResult[r].state = "rejected"

\* a step only adds calls at the end and only moves a request forward
StepsGoForward ==
  \A r \in Reqs :
    /\ Len(calls'[r]) >= Len(calls[r])
    /\ SubSeq(calls'[r], 1, Len(calls[r])) = calls[r]
    /\ PcRank(pc'[r]) >= PcRank(pc[r])
    /\ pc[r] = "done" => Own(r)' = Own(r)

\* C21: within one request the collaborator calls come in one fixed order and
\* none is repeated: credential check, validation, at most one directory query
\* that has returned or thrown before send is called, the read of the PDF in
\* the confirmation flow, then send; the 200 and the delivery-failure answer
\* are written only once send has returned or thrown.
C21_LinearOrder == []CallsInOrder /\ [][StepsGoForward]_vars

\* a confirmation went through credential check, read and send, and was
\* answered 200 after the send was accepted
C21_Witness ==
  \E r \in Active :
    /\ req[r].endpoint = CC
    /\ calls[r] = <<"init", "read", "send">>
    /\ pdfRead[r] = "ok"
    /\ sendResult[r].state = "accepted"
    /\ Answered(r)
    /\ Answer(r).status = 200

====
